---------------------------- MODULE Spec2Model ----------------------------
(***************************************************************************)
(* A model of gpro-rs: the ChordPro-like markup parser (src/src/parser.rs) *)
(* and the column wrapper (src/src/ui.rs).                                 *)
(*                                                                         *)
(* Text is a sequence of characters, a character a one-character string.   *)
(* Widths are character counts (the source mixes Span::width() and         *)
(* chars().count(); they agree on the single-width characters used here).  *)
(***************************************************************************)
EXTENDS Integers, Sequences, FiniteSets, TLC

VARIABLES
    pc,          \* which operation is under way, and how far it is
    tk_re,       \* regex_split_keep: the pattern, "tags" or "chords"
    tk_text,     \* regex_split_keep: the text
    tk_result,   \* regex_split_keep: the returned Vec<&str>
    tp_p,        \* transposition: a pitch class, 0 (C) .. 11 (B)
    tp_a,        \* transposition: a first offset in semitones
    tp_b,        \* transposition: a second offset in semitones
    tp_out,      \* transposition: the pitches computed
    source,      \* the songstring given to Song::new and Song::get_name
    transpose_to,\* Song::new: the target key, an Option<PitchClass>
    song,        \* Song::new: the Song (title, subtitle, songstring, text)
    lines,       \* Song::new: the lines songstring.lines() has yet to yield
    chorus,      \* Song::new: mut chorus
    comment,     \* Song::new: mut comment
    transposition, \* Song::new: mut transposition
    marks,       \* per SongLine of song.text, the marks of parse_chords
    name,        \* None, or Some(what Song::get_name(source) returned)
    sl_line,     \* split_at: the SongLine (self)
    sl_index,    \* split_at: the index
    sl_result,   \* split_at: None, or Some(the Result returned)
    wr_text,     \* wrap_lines: the lines (text)
    wr_container,\* wrap_lines: the viewport (container), width and height
    wr_checks,   \* whether the build checks integer overflow
    wr_result    \* wrap_lines: None, or Some(the outcome of the call)

tokvars == <<tk_re, tk_text, tk_result>>
pitchvars == <<tp_p, tp_a, tp_b, tp_out>>
songvars == <<source, transpose_to, song, lines, chorus, comment,
              transposition, marks, name>>
splitvars == <<sl_line, sl_index, sl_result>>
wrapvars == <<wr_text, wr_container, wr_checks, wr_result>>
vars == <<pc, tokvars, pitchvars, songvars, splitvars, wrapvars>>

(***************************************************************************)
(* Bounds of the model.                                                    *)
(***************************************************************************)
MaxLineLen == 5
MaxOffset == 14
MaxSegs == 3
MaxLines == 2
MaxSpans == 2
MaxWrapLines == 4
MaxViewWidth == 6
MaxViewHeight == 5

(***************************************************************************)
(* Characters and strings.                                                 *)
(***************************************************************************)
NL == "\n"
CR == "\r"
\* Option and Result: None (or Err, or a panic where so said) and Some(x).
None == <<>>
Some(x) == <<x>>

Min(S) == CHOOSE m \in S : \A k \in S : m <= k
Max(S) == CHOOSE m \in S : \A k \in S : m >= k

\* All sequences over S of length at most n.
SeqUpTo(S, n) == UNION {[1..k -> S] : k \in 0..n}

RECURSIVE Concat(_)
Concat(ss) == IF ss = <<>> THEN <<>> ELSE Head(ss) \o Concat(Tail(ss))

\* The smallest index k >= from with text[k] in set, or 0.
FirstIn(text, from, set) ==
    LET ks == {k \in from..Len(text) : text[k] \in set}
    IN  IF ks = {} THEN 0 ELSE Min(ks)

(***************************************************************************)
(* The regular expressions RE_TAGS and RE_CHORDS.                          *)
(* MatchLen(re, text, i) is the length of the match that starts at the     *)
(* 1-based index i, or 0 when none starts there.                           *)
(***************************************************************************)
\* \{([^\{\}\n]+?)(?::([^\{\}\n]+))?\}\n? : a brace pair around one or more
\* characters that are no brace and no newline, and one newline after it.
TagMatchLen(text, i) ==
    IF text[i] # "{" THEN 0
    ELSE LET j == FirstIn(text, i + 1, {"{", "}", NL})
         IN  IF j = 0 \/ text[j] # "}" \/ j = i + 1 THEN 0
             ELSE (j - i + 1)
                  + (IF j + 1 <= Len(text) /\ text[j + 1] = NL THEN 1 ELSE 0)

\* \[([^\n\[\]]*)\] : a bracket pair around characters that are no bracket
\* and no newline.
ChordMatchLen(text, i) ==
    IF text[i] # "[" THEN 0
    ELSE LET j == FirstIn(text, i + 1, {"[", "]", NL})
         IN  IF j = 0 \/ text[j] # "]" THEN 0 ELSE j - i + 1

MatchLen(re, text, i) ==
    IF re = "tags" THEN TagMatchLen(text, i) ELSE ChordMatchLen(text, i)

\* The leftmost match at or after index from: its index, or 0.
NextMatch(re, text, from) ==
    LET ks == {k \in from..Len(text) : MatchLen(re, text, k) > 0}
    IN  IF ks = {} THEN 0 ELSE Min(ks)

(***************************************************************************)
(* Song::regex_split_keep.  last is the source's byte offset (0-based).    *)
(***************************************************************************)
\* A variant that returns without the text after the last match.
SplitTailDropped(text, last, result) == result

\* The part of the text after the last match.
SplitTail(text, last, result) ==
    IF last < Len(text)
    THEN Append(result, SubSeq(text, last + 1, Len(text)))
    ELSE result

RECURSIVE SplitLoop(_, _, _, _)

\* The body of the loop for the match of length n at index (0-based).
SplitMatch(re, text, last, result, index, n) ==
    SplitLoop(re, text, index + n,
              Append(IF last # index
                     THEN Append(result, SubSeq(text, last + 1, index))
                     ELSE result,
                     SubSeq(text, index + 1, index + n)))

\* i is the 1-based index of the next match, or 0 after the last one.
SplitFrom(re, text, last, result, i) ==
    IF i = 0 THEN SplitTail(text, last, result)
    ELSE SplitMatch(re, text, last, result, i - 1, MatchLen(re, text, i))

SplitLoop(re, text, last, result) ==
    SplitFrom(re, text, last, result, NextMatch(re, text, last + 1))

regex_split_keep(re, text) == SplitLoop(re, text, 0, <<>>)

(***************************************************************************)
(* Pitch classes and transposition (rust_music_theory, as parser.rs calls  *)
(* it).  A pitch class is its semitone, 0 (C) .. 11 (B).                   *)
(***************************************************************************)
\* Rust's % on i32: the remainder has the sign of the dividend.
RustRem(a, n) == IF a >= 0 THEN a % n ELSE -((-a) % n)

\* Rust's `as u8` on an i32: the low 8 bits.
AsU8(x) == x % 256

\* ((transposition + 12) % 12) as u8
NormalizeOffset(offset) == AsU8(RustRem(offset + 12, 12))

\* Interval::from_semitone(n): an interval for 0..12 semitones, an Err above.
IntervalFromSemitone(n) == IF n \in 0..12 THEN Some(n) ELSE None

\* PitchClass::from_interval(pitch, interval): from_u8(pitch + semitones).
PitchFromInterval(pitch, semitones) == (pitch + semitones) % 12

\* PitchClass::from_interval(p, Interval::from_semitone(
\*     ((transposition + 12) % 12) as u8).unwrap()): Some(pitch), or None
\* when the unwrap of the interval panics.
TransposePitch(pitch, offset) ==
    LET interval == IntervalFromSemitone(NormalizeOffset(offset))
    IN  IF interval = None THEN None
        ELSE Some(PitchFromInterval(pitch, interval[1]))

\* Transposing twice; a panic in the first call leaves no second one.
TransposeTwice(pitch, a, b) ==
    LET first == TransposePitch(pitch, a)
    IN  IF first = None THEN None ELSE TransposePitch(first[1], b)

LetterSemitone(c) ==
    CASE c = "C" -> 0 [] c = "D" -> 2 [] c = "E" -> 4 [] c = "F" -> 5
      [] c = "G" -> 7 [] c = "A" -> 9 [] c = "B" -> 11 [] OTHER -> -1

\* PitchClass::from_str: a letter A-G, then nothing, a sharp or a flat.
PitchFromStr(s) ==
    IF Len(s) = 0 \/ Len(s) > 2 \/ LetterSemitone(s[1]) < 0 THEN None
    ELSE IF Len(s) = 1 THEN Some(LetterSemitone(s[1]))
    ELSE IF s[2] = "#" THEN Some(PitchFromInterval(LetterSemitone(s[1]), 1))
    ELSE IF s[2] = "b" THEN Some(PitchFromInterval(LetterSemitone(s[1]), 11))
    ELSE None

\* PitchClass's Display: the sharp names.
PitchName(p) ==
    CASE p = 0 -> <<"C">> [] p = 1 -> <<"C", "#">> [] p = 2 -> <<"D">>
      [] p = 3 -> <<"D", "#">> [] p = 4 -> <<"E">> [] p = 5 -> <<"F">>
      [] p = 6 -> <<"F", "#">> [] p = 7 -> <<"G">> [] p = 8 -> <<"G", "#">>
      [] p = 9 -> <<"A">> [] p = 10 -> <<"A", "#">> [] p = 11 -> <<"B">>

(***************************************************************************)
(* Styled text: a Span is a content and a style, a Spans a sequence of     *)
(* Span.  The styles are those of the Theme, by name.                      *)
(***************************************************************************)
Span(content, style) == [content |-> content, style |-> style]

RECURSIVE SpansWidth(_)
SpansWidth(spans) ==
    IF spans = <<>> THEN 0
    ELSE Len(Head(spans).content) + SpansWidth(Tail(spans))

\* The characters of a Spans, styles dropped.
RECURSIVE SpansText(_)
SpansText(spans) ==
    IF spans = <<>> THEN <<>>
    ELSE Head(spans).content \o SpansText(Tail(spans))

Repeat(c, n) == [k \in 1..n |-> c]

Whitespace == {" ", "\t", NL, CR}

\* str::trim
RECURSIVE TrimStart(_)
TrimStart(s) ==
    IF s # <<>> /\ Head(s) \in Whitespace THEN TrimStart(Tail(s)) ELSE s

RECURSIVE TrimEnd(_)
TrimEnd(s) ==
    IF s # <<>> /\ s[Len(s)] \in Whitespace
    THEN TrimEnd(SubSeq(s, 1, Len(s) - 1)) ELSE s

Trim(s) == TrimEnd(TrimStart(s))

Digits == {"0", "1", "2", "3", "4", "5", "6", "7", "8", "9"}

DigitVal(c) ==
    CASE c = "0" -> 0 [] c = "1" -> 1 [] c = "2" -> 2 [] c = "3" -> 3
      [] c = "4" -> 4 [] c = "5" -> 5 [] c = "6" -> 6 [] c = "7" -> 7
      [] c = "8" -> 8 [] c = "9" -> 9

RECURSIVE DigitsVal(_)
DigitsVal(s) ==
    IF s = <<>> THEN 0
    ELSE 10 * DigitsVal(SubSeq(s, 1, Len(s) - 1)) + DigitVal(s[Len(s)])

\* str::parse::<i32>: an optional sign and one or more digits, in range.
ParseI32(s) ==
    LET signed == s # <<>> /\ s[1] \in {"-", "+"}
        digits == IF signed THEN Tail(s) ELSE s
        value  == IF s[1] = "-" THEN -DigitsVal(digits) ELSE DigitsVal(digits)
    IN  IF digits = <<>> \/ \E k \in 1..Len(digits) : digits[k] \notin Digits
        THEN None
        ELSE IF value < -2147483647 - 1 \/ value > 2147483647 THEN None
        ELSE Some(value)

(***************************************************************************)
(* RE_TAGS.captures(section): None when the section holds no tag, else the *)
(* name (group 1, lazy) and the argument (group 2, optional) of the first. *)
(* Group 1 ends at the first colon that has a character before it and one  *)
(* after it; with no such colon it is the whole body and group 2 is None.  *)
(***************************************************************************)
\* ks: the places of the body before a colon that has a character after it.
TagGroups(body, ks) ==
    IF ks = {}
    THEN Some([name |-> body, arg |-> None])
    ELSE Some([name |-> SubSeq(body, 1, Min(ks)),
               arg  |-> Some(SubSeq(body, Min(ks) + 2, Len(body)))])

\* The tag that starts at index i of the section, none when i is 0.
TagAt(section, i) ==
    IF i = 0 THEN None
    ELSE LET body == SubSeq(section, i + 1,
                            FirstIn(section, i + 1, {"}"}) - 1)
         IN  TagGroups(body, {k \in 1..(Len(body) - 2) : body[k + 1] = ":"})

TagCaptures(section) == TagAt(section, NextMatch("tags", section, 1))

(***************************************************************************)
(* RE_ROOT_NOTE.replace_all(chord_tag, ...): every [ABCDEFG][b#]? of the   *)
(* tag is replaced by the name of its pitch, transposed.  None when the    *)
(* closure panics (it runs only if the tag holds a root).                  *)
(***************************************************************************)
RootLetters == {"A", "B", "C", "D", "E", "F", "G"}

RECURSIVE ReplaceRootsFrom(_, _, _)
ReplaceRootsFrom(tag, i, offset) ==
    IF i > Len(tag) THEN <<>>
    ELSE IF tag[i] \notin RootLetters
         THEN <<tag[i]>> \o ReplaceRootsFrom(tag, i + 1, offset)
    ELSE LET n == IF i < Len(tag) /\ tag[i + 1] \in {"b", "#"} THEN 2 ELSE 1
             root == PitchFromStr(SubSeq(tag, i, i + n - 1))
             moved == TransposePitch(root[1], offset)
         IN  PitchName(moved[1]) \o ReplaceRootsFrom(tag, i + n, offset)

ReplaceRoots(tag, offset) ==
    IF /\ \E i \in 1..Len(tag) : tag[i] \in RootLetters
       /\ IntervalFromSemitone(NormalizeOffset(offset)) = None
    THEN None
    ELSE Some(ReplaceRootsFrom(tag, 1, offset))

(***************************************************************************)
(* Song::parse_chords.  chords and spans are the line's runs so far; the   *)
(* result is the runs after the call, or a panic.                          *)
(*                                                                         *)
(* marks is not in the source: it notes, for each chord token, the width   *)
(* of the chord run and of the lyric run when the token is met, before     *)
(* any padding (cfrom, lfrom), the column                                  *)
(* of the chord run at which its text was put (ccol), the column of the    *)
(* lyric run at which the text that follows it is put (lcol), the text of  *)
(* the chord as put (chord) and the literal that follows it in the         *)
(* section, if one does (lyric).                                           *)
(***************************************************************************)
\* The filler of the lyric run: a space after a space or one of , . : ;
\* (and when the lyrics of this call are still empty), a hyphen otherwise.
Delimiter(lyrics_string) ==
    LET last == IF lyrics_string = <<>> THEN " "
                ELSE lyrics_string[Len(lyrics_string)]
    IN  IF last \in {" ", ",", ".", ":", ";"} THEN " " ELSE "-"

\* A variant that counts only what this call has queued, not the runs of
\* the line so far.
DifferenceOfThisCall(lyrics_width, lyrics_string, chords_width, chords_string) ==
    Len(lyrics_string) - Len(chords_string)

\* lyrics minus chords, both with what this call has queued.
Difference(lyrics_width, lyrics_string, chords_width, chords_string) ==
    (lyrics_width + Len(lyrics_string)) - (chords_width + Len(chords_string))

RECURSIVE ChordParts(_, _, _, _, _, _, _, _)

\* The arm of a chord token: the padding, then the chord and a space.
ChordPart(parts, k, chords_string, lyrics_string, chords_width, lyrics_width, offset, noted, difference, parsed_chord) ==
         LET lyrics == IF difference < 0
                       THEN lyrics_string
                            \o Repeat(Delimiter(lyrics_string), -difference)
                       ELSE lyrics_string
             chords == IF difference > 0
                       THEN chords_string \o Repeat(" ", difference)
                       ELSE chords_string
             mark == [cfrom |-> chords_width + Len(chords_string),
                      lfrom |-> lyrics_width + Len(lyrics_string),
                      ccol  |-> chords_width + Len(chords),
                      lcol  |-> lyrics_width + Len(lyrics),
                      chord |-> parsed_chord[1],
                      lyric |-> IF k < Len(parts)
                                   /\ MatchLen("chords", parts[k + 1], 1) = 0
                                THEN parts[k + 1] ELSE <<>>]
         IN  IF parsed_chord = None
             THEN [ok |-> FALSE, chords_string |-> chords,
                   lyrics_string |-> lyrics, marks |-> noted]
             ELSE ChordParts(parts, k + 1, chords \o parsed_chord[1] \o <<" ">>,
                             lyrics, chords_width, lyrics_width, offset,
                             Append(noted, mark))

ChordParts(parts, k, chords_string, lyrics_string, chords_width, lyrics_width, offset, noted) ==
    IF k > Len(parts)
    THEN [ok |-> TRUE, chords_string |-> chords_string,
          lyrics_string |-> lyrics_string, marks |-> noted]
    ELSE IF MatchLen("chords", parts[k], 1) = 0
    THEN ChordParts(parts, k + 1, chords_string, lyrics_string \o parts[k],
                    chords_width, lyrics_width, offset, noted)
    ELSE ChordPart(parts, k, chords_string, lyrics_string, chords_width,
                   lyrics_width, offset, noted,
                   Difference(lyrics_width, lyrics_string, chords_width,
                              chords_string),
                   ReplaceRoots(SubSeq(parts[k], 2, Len(parts[k]) - 1),
                                offset))

\* The end of parse_chords: what was queued is pushed, if not empty.
PushRuns(r, chords, spans) ==
        [ok     |-> r.ok,
         chords |-> IF r.chords_string # <<>>
                    THEN Append(chords, Span(r.chords_string, "chord"))
                    ELSE chords,
         spans  |-> IF r.lyrics_string # <<>>
                    THEN Append(spans, Span(r.lyrics_string, "plain"))
                    ELSE spans,
         marks  |-> r.marks]

parse_chords(chord_line, chords, spans, offset, noted) ==
    PushRuns(ChordParts(regex_split_keep("chords", chord_line), 1, <<>>, <<>>,
                        SpansWidth(chords), SpansWidth(spans), offset,
                        noted),
             chords, spans)

(***************************************************************************)
(* SongLine: an optional chord run and an optional text run.               *)
(***************************************************************************)
SongLine(chords, text) == [chords |-> chords, text |-> text]

\* SongLine::from, SongLine::from_text, SongLine::from_chords
LineFrom(chords, text) == SongLine(Some(chords), Some(text))
LineFromText(text) == SongLine(None, Some(text))
LineFromChords(chords) == SongLine(Some(chords), None)

(***************************************************************************)
(* The directive names Song::new and Song::get_name match on.              *)
(***************************************************************************)
TitleNames == {<<"t">>, <<"t", "i", "t", "l", "e">>}
SubtitleNames == {<<"s", "t">>, <<"s", "u", "b", "t", "i", "t", "l", "e">>}
KeyName == <<"k", "e", "y">>
CapoName == <<"C", "a", "p", "o", "-", "B", "a", "s", "s", "_",
              "G", "u", "i", "t", "a", "r">>
CommentName == <<"c">>
SocNames == {<<"s", "o", "c">>,
             <<"s", "t", "a", "r", "t", "_", "o", "f", "_",
               "c", "h", "o", "r", "u", "s">>}
EocNames == {<<"e", "o", "c">>,
             <<"e", "n", "d", "_", "o", "f", "_", "c", "h", "o", "r", "u", "s">>}
SohName == <<"s", "o", "h">>
EohName == <<"e", "o", "h">>
TagNames == {<<"t", "a", "g">>, <<"t", "a", "g", ":">>}

(***************************************************************************)
(* RE_NEWLINES.replace_all(songstring, "\n") and str::lines.               *)
(***************************************************************************)
\* (\n\r?|\r\n?) becomes \n
RECURSIVE NormalizeNewlines(_)
NormalizeNewlines(s) ==
    IF s = <<>> THEN <<>>
    ELSE IF /\ Len(s) >= 2
            /\ <<s[1], s[2]>> \in {<<NL, CR>>, <<CR, NL>>}
         THEN <<NL>> \o NormalizeNewlines(SubSeq(s, 3, Len(s)))
    ELSE IF s[1] \in {NL, CR} THEN <<NL>> \o NormalizeNewlines(Tail(s))
    ELSE <<s[1]>> \o NormalizeNewlines(Tail(s))

\* str::lines: the text between line feeds, a carriage return before a line
\* feed dropped, and no empty line after the last line feed.
RECURSIVE StrLines(_)
StrLines(s) ==
    IF s = <<>> THEN <<>>
    ELSE LET j == FirstIn(s, 1, {NL})
             upto == IF j = 0 THEN Len(s) ELSE j - 1
             line == IF j > 1 /\ s[j - 1] = CR
                     THEN SubSeq(s, 1, j - 2) ELSE SubSeq(s, 1, upto)
         IN  IF j = 0 THEN <<line>>
             ELSE <<line>> \o StrLines(SubSeq(s, j + 1, Len(s)))

(***************************************************************************)
(* Song::new, one physical line.  st is the builder: the song's title,     *)
(* subtitle and text (its SongLines), chorus, comment, transposition, and  *)
(* marks (the marks of parse_chords, one sequence per SongLine).           *)
(***************************************************************************)
ChorusMarker == Span(<<"|", " ">>, "comment")

\* The body of `for section in ...`: the sections from the k-th on.  flow is
\* "end" after the last section, "continue" at a `continue 'lines`, "panic"
\* at an unwrap of None or of an Err.
\* A variant that subtracts the target from the declared key.
KeyShiftReversed(key, song_key) == song_key - key

\* key.into_u8() as i32 - song_key.into_u8() as i32
KeyShift(key, song_key) == key - song_key

RECURSIVE Sections(_, _, _, _, _, _, _)

SectionsOut(flow, st, chords, text, lmarks) ==
    [flow |-> flow, st |-> st, chords |-> chords, text |-> text,
     lmarks |-> lmarks]

\* After parse_chords on the k-th section: r is what it returned.
ChordsParsed(secs, k, st, chords, text, lmarks, target, r) ==
    IF r.ok THEN Sections(secs, k + 1, st, r.chords, r.spans, r.marks, target)
    ELSE SectionsOut("panic", st, chords, text, lmarks)

\* The arm `Some(cap)`: the directive tagname with the argument arg.
Directive(secs, k, st, chords, text, lmarks, target, tagname, arg) ==
    LET out(flow, s, c, t, m) == SectionsOut(flow, s, c, t, m)
        next(s, c, t, m) == Sections(secs, k + 1, s, c, t, m, target)
    IN
         IF tagname \in TitleNames
         THEN IF arg = None THEN out("panic", st, chords, text, lmarks)
              ELSE out("continue", [st EXCEPT !.title = Trim(arg[1])],
                       chords, text, lmarks)
         ELSE IF tagname \in SubtitleNames
         THEN IF arg = None THEN out("panic", st, chords, text, lmarks)
              ELSE out("continue",
                       [st EXCEPT
                          !.subtitle = Trim(arg[1]),
                          !.text = Append(@, LineFromText(
                                       <<Span(Trim(arg[1]), "title")>>)),
                          !.marks = Append(@, <<>>)],
                       chords, text, lmarks)
         ELSE IF tagname = KeyName
         THEN IF target = None
              THEN out("continue", st, chords, text, lmarks)
              ELSE IF arg = None THEN out("panic", st, chords, text, lmarks)
              ELSE LET song_key == PitchFromStr(Trim(arg[1]))
                   IN  out("continue",
                           IF song_key = None THEN st
                           ELSE [st EXCEPT !.transposition =
                                     @ + KeyShift(target[1], song_key[1])],
                           chords, text, lmarks)
         ELSE IF tagname = CapoName
         THEN IF arg = None \/ ParseI32(Trim(arg[1])) = None
              THEN out("panic", st, chords, text, lmarks)
              ELSE next([st EXCEPT !.transposition =
                             @ - ParseI32(Trim(arg[1]))[1]],
                        chords, text, lmarks)
         ELSE IF tagname = CommentName
         THEN IF arg = None THEN out("panic", st, chords, text, lmarks)
              ELSE next(st, chords, Append(text, Span(arg[1], "comment")),
                        lmarks)
         ELSE IF tagname \in SocNames
         THEN out("continue", [st EXCEPT !.chorus = TRUE], chords, text, lmarks)
         ELSE IF tagname \in EocNames
         THEN next([st EXCEPT !.chorus = FALSE], chords, text, lmarks)
         ELSE IF tagname = SohName
         THEN next([st EXCEPT !.comment = TRUE], chords, text, lmarks)
         ELSE IF tagname = EohName
         THEN next([st EXCEPT !.comment = FALSE], chords, text, lmarks)
         ELSE IF tagname \in TagNames
         THEN out("continue", st, chords, text, lmarks)
         ELSE next(st, chords, text, lmarks)

\* A variant that sends the text of a comment block to parse_chords too.
SectionAlwaysAligned(secs, k, st, chords, text, lmarks, target, cap) ==
    IF cap # None
    THEN Directive(secs, k, st, chords, text, lmarks, target,
                   cap[1].name, cap[1].arg)
    ELSE ChordsParsed(secs, k, st, chords, text, lmarks, target,
                      parse_chords(secs[k], chords, text, st.transposition,
                                   lmarks))

\* The k-th section, with the captures of RE_TAGS in it.
Section(secs, k, st, chords, text, lmarks, target, cap) ==
    IF cap # None
    THEN Directive(secs, k, st, chords, text, lmarks, target,
                   cap[1].name, cap[1].arg)
    ELSE IF st.comment
    THEN Sections(secs, k + 1, st, chords,
                  Append(text, Span(secs[k], "comment")), lmarks, target)
    ELSE ChordsParsed(secs, k, st, chords, text, lmarks, target,
                      parse_chords(secs[k], chords, text, st.transposition,
                                   lmarks))

Sections(secs, k, st, chords, text, lmarks, target) ==
    IF k > Len(secs) THEN SectionsOut("end", st, chords, text, lmarks)
    ELSE Section(secs, k, st, chords, text, lmarks, target,
                 TagCaptures(secs[k]))

\* A variant that does not look whether the run is empty.
WithMarkerAlways(in_chorus, run) ==
    IF in_chorus THEN <<ChorusMarker>> \o run ELSE run

\* The chorus marker before a run that is not empty.
WithMarker(in_chorus, run) ==
    IF in_chorus /\ run # <<>> THEN <<ChorusMarker>> \o run ELSE run

\* The marks of a line, moved with the runs the chorus marker moves.
MovedMarks(lmarks, chords, text, marked_chords, marked_text) ==
    [k \in 1..Len(lmarks) |->
        [lmarks[k] EXCEPT
           !.cfrom = @ + (SpansWidth(marked_chords) - SpansWidth(chords)),
           !.lfrom = @ + (SpansWidth(marked_text) - SpansWidth(text)),
           !.ccol = @ + (SpansWidth(marked_chords) - SpansWidth(chords)),
           !.lcol = @ + (SpansWidth(marked_text) - SpansWidth(text))]]

\* The end of an iteration: the chorus marker, and the push of the line.
PushLine(r) ==
    LET text == WithMarker(r.st.chorus, r.text)
        chords == WithMarker(r.st.chorus, r.chords)
        songline == IF chords # <<>> THEN LineFrom(chords, text)
                    ELSE LineFromText(text)
    IN  IF r.flow = "panic" THEN [ok |-> FALSE, st |-> r.st]
        ELSE IF r.flow = "continue" THEN [ok |-> TRUE, st |-> r.st]
        ELSE [ok |-> TRUE,
              st |-> [r.st EXCEPT
                        !.text = Append(@, songline),
                        !.marks = Append(@, MovedMarks(r.lmarks, r.chords,
                                                       r.text, chords, text))]]

\* One iteration of `'lines: for line in songstring.lines()`.
SongLineStep(st, line, target) ==
    PushLine(Sections(regex_split_keep("tags", line), 1, st, <<>>, <<>>, <<>>,
                      target))

(***************************************************************************)
(* Song::get_name                                                          *)
(***************************************************************************)
Untitled == <<"U", "n", "t", "i", "t", "l", "e", "d">>

\* The title and the subtitle after the sections from the k-th on.
RECURSIVE NameSections(_, _, _)

\* The body of `for section in ...` for the captures of the k-th section.
NameSection(secs, k, ts, cap) ==
         IF cap = None THEN NameSections(secs, k + 1, ts)
         ELSE IF cap[1].name \in TitleNames
         THEN IF cap[1].arg = None THEN [ts EXCEPT !.ok = FALSE]
              ELSE NameSections(secs, k + 1,
                                [ts EXCEPT !.title = Trim(cap[1].arg[1])])
         ELSE IF cap[1].name \in SubtitleNames
         THEN IF cap[1].arg = None THEN [ts EXCEPT !.ok = FALSE]
              ELSE NameSections(secs, k + 1,
                                [ts EXCEPT !.subtitle = Trim(cap[1].arg[1])])
         ELSE NameSections(secs, k + 1, ts)

NameSections(secs, k, ts) ==
    IF k > Len(secs) THEN ts
    ELSE NameSection(secs, k, ts, TagCaptures(secs[k]))

RECURSIVE NameLines(_, _, _)
NameLines(ls, k, ts) ==
    IF k > Len(ls) \/ ~ts.ok THEN ts
    ELSE NameLines(ls, k + 1,
                   NameSections(regex_split_keep("tags", ls[k]), 1, ts))

\* "{title}" or "{title} - {subtitle}"
FormatName(title, subtitle) ==
    IF subtitle = <<>> THEN title ELSE title \o <<" ", "-", " ">> \o subtitle

\* Some(name), or None at a panic (a title or subtitle tag with no argument).
NameOf(ts) ==
    IF ts.ok THEN Some(FormatName(ts.title, ts.subtitle)) ELSE None

get_name(songstring) ==
    NameOf(NameLines(StrLines(NormalizeNewlines(songstring)), 1,
                     [ok |-> TRUE, title |-> Untitled, subtitle |-> <<>>]))

(***************************************************************************)
(* SongLine::width, SongLine::height                                       *)
(***************************************************************************)
Width(line) ==
    IF line.chords # None /\ line.text # None
    THEN Max({SpansWidth(line.chords[1]), SpansWidth(line.text[1])})
    ELSE IF line.chords # None THEN SpansWidth(line.chords[1])
    ELSE IF line.text # None THEN SpansWidth(line.text[1])
    ELSE 0

Height(line) ==
    IF line.chords # None /\ line.text # None THEN 2
    ELSE IF line.chords # None \/ line.text # None THEN 1
    ELSE 0

(***************************************************************************)
(* SongLine::split_spans.  The source's function ends after its loop and   *)
(* names no value to return; the model returns the two runs the loop has   *)
(* built, left and right.  (The for_each before the loop is an unfinished  *)
(* statement without effect.)                                              *)
(***************************************************************************)
RECURSIVE SplitSpansLoop(_, _, _, _, _, _)
SplitSpansLoop(spans, k, index, spanswidth, left, right) ==
    IF k > Len(spans) THEN <<left, right>>
    ELSE LET span == spans[k]
             spanwidth == Len(span.content)
         IN  IF spanswidth + spanwidth > index /\ spanswidth < index
             THEN SplitSpansLoop(spans, k + 1, index, spanswidth + spanwidth,
                     Append(left, Span(SubSeq(span.content, 1,
                                              index - spanswidth),
                                       span.style)),
                     Append(right, Span(SubSeq(span.content,
                                               index - spanswidth + 1,
                                               spanwidth),
                                        span.style)))
             ELSE IF spanswidth < index
             THEN SplitSpansLoop(spans, k + 1, index, spanswidth + spanwidth,
                                 Append(left, span), right)
             ELSE SplitSpansLoop(spans, k + 1, index, spanswidth, left,
                                 Append(right, span))

split_spans(spans, index) ==
    IF index >= SpansWidth(spans) THEN <<spans>>
    ELSE SplitSpansLoop(spans, 1, index, 0, <<>>, <<>>)

(***************************************************************************)
(* SongLine::split_at: Err(message) or Ok(pieces).                         *)
(***************************************************************************)
Err(message) == [ok |-> FALSE, err |-> message, pieces |-> <<>>]
Ok(pieces) == [ok |-> TRUE, err |-> "", pieces |-> pieces]

\* A variant of the first check that lets the width itself through.
IndexPastWidth(line, index) == index > Width(line)

\* if index >= self.width()
IndexOutOfRange(line, index) == index >= Width(line)

split_at(line, index) ==
    IF IndexOutOfRange(line, index)
    THEN Err("Split index larger than width")
    ELSE IF line.chords # None /\ line.text # None
    THEN LET chordlines == split_spans(line.chords[1], index)
             textlines == split_spans(line.text[1], index)
             n == Min({Len(chordlines), Len(textlines)})
         IN  Ok([k \in 1..n |-> LineFrom(chordlines[k], textlines[k])])
    ELSE IF line.chords # None
    THEN LET chordlines == split_spans(line.chords[1], index)
         IN  Ok([k \in 1..Len(chordlines) |-> LineFromChords(chordlines[k])])
    ELSE IF line.text # None
    THEN LET textlines == split_spans(line.text[1], index)
         IN  Ok([k \in 1..Len(textlines) |-> LineFromChords(textlines[k])])
    ELSE Err("No content to split on")

(***************************************************************************)
(* wrap_lines (ui.rs).  The source is a draft that does not compile; the   *)
(* model reads it as written:                                              *)
(*  - text[i].len() and line.len() are the line's height();                *)
(*  - `let (column, rest) = rest.split_at(i)` declares a new rest inside   *)
(*    the if: the rest that is split is always the whole text, so column   *)
(*    is text[0..i];                                                       *)
(*  - after the loop `column` names nothing that is in scope: the model    *)
(*    takes any slice the loop has named, the column or the rest of the    *)
(*    last split, or the rest outside the loop (the whole text);           *)
(*  - line_wrapped_text is computed and dropped; the columns are returned. *)
(***************************************************************************)
\* (x - 2) on a u16: with overflow checks a panic below 2, without them the
\* difference modulo 2^16.
U16Sub2(x, overflow_checks) ==
    IF x >= 2 THEN Some(x - 2)
    ELSE IF overflow_checks THEN None
    ELSE Some((x - 2) % 65536)

\* Column::height
RECURSIVE ColumnHeight(_)
ColumnHeight(column) ==
    IF column = <<>> THEN 0
    ELSE Height(Head(column)) + ColumnHeight(Tail(column))

\* The loop of lines 178-186; i is the source's i (0-based), last_split the
\* i of the last split_at, None before the first.
RECURSIVE PackLoop(_, _, _, _, _, _)
PackLoop(text, i, height, columnheight, columns, last_split) ==
    IF i >= Len(text)
    THEN [columns |-> columns, last_split |-> last_split]
    ELSE IF columnheight + Height(text[i + 1]) > height
    THEN PackLoop(text, i + 1, height, 0,
                  Append(columns, SubSeq(text, 1, i)), Some(i))
    ELSE PackLoop(text, i + 1, height, columnheight + Height(text[i + 1]),
                  columns, last_split)

\* What `column` of line 187 may name.
FinalPicks == {"column", "rest", "text"}

FinalColumn(text, last_split, pick) ==
    IF last_split = None \/ pick = "text" THEN text
    ELSE IF pick = "column" THEN SubSeq(text, 1, last_split[1])
    ELSE SubSeq(text, last_split[1] + 1, Len(text))

\* column.iter().max_by_key(|i| i.width()).unwrap() panics on an empty column.
MaxWidthPanics(columns) == \E k \in 1..Len(columns) : columns[k] = <<>>

\* line.split_at(width).unwrap() of lines 199-200 panics on an Err.
LineWrapPanics(text, width, columncount) ==
    \E k \in 1..Len(text) :
        /\ Width(text[k]) > width \div columncount
        /\ ~split_at(text[k], width).ok

\* The outcome of wrap_lines: the columns returned, or the panic.  why is
\* not in the source: it names the expression that panicked.
WrapPanic(why) == [ok |-> FALSE, columns |-> <<>>, why |-> why]

wrap_lines(text, container, overflow_checks, pick) ==
    LET height == U16Sub2(container.height, overflow_checks)
        width == U16Sub2(container.width, overflow_checks)
    IN  IF height = None \/ width = None THEN WrapPanic("subtract")
        ELSE LET packed == PackLoop(text, 0, height[1], 0, <<>>, None)
                 columns == Append(packed.columns,
                                   FinalColumn(text, packed.last_split, pick))
             IN  IF MaxWidthPanics(columns) THEN WrapPanic("max_by_key")
                 ELSE IF height[1] = 0 THEN WrapPanic("divide")
                 ELSE IF LineWrapPanics(text, width[1],
                                        Len(text) \div height[1] + 1)
                 THEN WrapPanic("split_at")
                 ELSE [ok |-> TRUE, columns |-> columns, why |-> "none"]

(***************************************************************************)
(* The tokenizer on its own: a pattern and a text, then the call.          *)
(***************************************************************************)
TokAlphabet == {"{", "}", "[", "]", ":", "a", NL}

TokIdle == tk_re = "idle" /\ tk_text = <<>> /\ tk_result = <<>>
PitchIdle == tp_p = 0 /\ tp_a = 0 /\ tp_b = 0 /\ tp_out = None
SongIdle ==
    /\ source = <<>> /\ transpose_to = None /\ song = <<>> /\ lines = <<>>
    /\ chorus = FALSE /\ comment = FALSE /\ transposition = 0
    /\ marks = <<>> /\ name = None
SplitIdle == sl_line = <<>> /\ sl_index = 0 /\ sl_result = None
WrapIdle ==
    /\ wr_text = <<>> /\ wr_container = <<>> /\ wr_checks = FALSE
    /\ wr_result = None

InitTok ==
    /\ pc = "tok_call"
    /\ tk_re \in {"tags", "chords"}
    /\ tk_text \in SeqUpTo(TokAlphabet, MaxLineLen)
    /\ tk_result = <<>>
    /\ PitchIdle /\ SongIdle /\ SplitIdle /\ WrapIdle

Tokenize ==
    /\ pc = "tok_call"
    /\ tk_result' = regex_split_keep(tk_re, tk_text)
    /\ pc' = "tok_done"
    /\ UNCHANGED <<tk_re, tk_text, pitchvars, songvars, splitvars, wrapvars>>

NextTok == Tokenize

SpecTok == InitTok /\ [][NextTok]_vars

(***************************************************************************)
(* C1: the segments regex_split_keep returns, concatenated in the order    *)
(* returned, are the text it was given, for both patterns.                 *)
(***************************************************************************)
C1_SplitKeepCovers ==
    pc = "tok_done" => Concat(tk_result) = tk_text

\* A text with a literal before a match and a literal after it.
C1_Witness ==
    /\ pc = "tok_done"
    /\ Len(tk_result) = 3
    /\ MatchLen(tk_re, tk_result[2], 1) = Len(tk_result[2])
    /\ MatchLen(tk_re, tk_result[1], 1) = 0

(***************************************************************************)
(* Transposition on its own: a pitch class and two offsets, then the       *)
(* transpositions.  An offset is what capo and key directives accumulate   *)
(* in Song::new (a capo of 13 gives -13).                                  *)
(***************************************************************************)
InitPitch ==
    /\ pc = "tp_call"
    /\ tp_p \in 0..11
    /\ tp_a \in -MaxOffset..MaxOffset
    /\ tp_b \in -MaxOffset..MaxOffset
    /\ tp_out = None
    /\ TokIdle /\ SongIdle /\ SplitIdle /\ WrapIdle

Transpose ==
    /\ pc = "tp_call"
    /\ tp_out' = [ab   |-> TransposeTwice(tp_p, tp_a, tp_b),
                  sum  |-> TransposePitch(tp_p, tp_a + tp_b),
                  zero |-> TransposePitch(tp_p, 0)]
    /\ pc' = "tp_done"
    /\ UNCHANGED <<tp_p, tp_a, tp_b, tokvars, songvars, splitvars, wrapvars>>

NextPitch == Transpose

SpecPitch == InitPitch /\ [][NextPitch]_vars

(***************************************************************************)
(* C3: transposition is a group action on the 12 pitch classes for every   *)
(* integer offset: by a and then by b is by a + b, by 0 is the identity,   *)
(* and the offset is normalized into 0..11 before the lookup, also for     *)
(* offsets below -12.                                                      *)
(***************************************************************************)
C3_GroupAction ==
    pc = "tp_done" =>
        /\ NormalizeOffset(tp_a) \in 0..11
        /\ tp_out.sum = Some((tp_p + tp_a + tp_b) % 12)
        /\ tp_out.ab = tp_out.sum
        /\ tp_out.zero = Some(tp_p)

(***************************************************************************)
(* Song::new and Song::get_name on a source text.  Init is the state after *)
(* lines 162-171 of parser.rs: the line endings normalized, the Song with  *)
(* its songstring only, the flags down, no transposition.                  *)
(***************************************************************************)
\* The lines made of at most n of the segments, each a piece of markup.
LinesOf(segments, n) == {Concat(ss) : ss \in SeqUpTo(segments, n)}

RECURSIVE JoinLines(_, _)
JoinLines(ls, sep) ==
    IF ls = <<>> THEN <<>>
    ELSE IF Len(ls) = 1 THEN ls[1]
    ELSE ls[1] \o sep \o JoinLines(Tail(ls), sep)

InitSong(sources, targets) ==
    /\ pc = "parsing"
    /\ source \in sources
    /\ transpose_to \in targets
    /\ song = [title |-> <<>>, subtitle |-> <<>>,
               songstring |-> NormalizeNewlines(source), text |-> <<>>]
    /\ lines = StrLines(NormalizeNewlines(source))
    /\ chorus = FALSE
    /\ comment = FALSE
    /\ transposition = 0
    /\ marks = <<>>
    /\ name = None
    /\ TokIdle /\ PitchIdle /\ SplitIdle /\ WrapIdle

\* One iteration of the 'lines loop of Song::new; a panic ends the call.
ParseLine ==
    /\ pc = "parsing"
    /\ lines # <<>>
    /\ \E r \in {SongLineStep([title |-> song.title,
                               subtitle |-> song.subtitle,
                               text |-> song.text, chorus |-> chorus,
                               comment |-> comment,
                               transposition |-> transposition,
                               marks |-> marks],
                              Head(lines), transpose_to)} :
           IF r.ok
           THEN /\ song' = [song EXCEPT !.title = r.st.title,
                                        !.subtitle = r.st.subtitle,
                                        !.text = r.st.text]
                /\ chorus' = r.st.chorus
                /\ comment' = r.st.comment
                /\ transposition' = r.st.transposition
                /\ marks' = r.st.marks
                /\ lines' = Tail(lines)
                /\ pc' = "parsing"
           ELSE /\ pc' = "panicked"
                /\ UNCHANGED <<song, chorus, comment, transposition, marks,
                               lines>>
    /\ UNCHANGED <<source, transpose_to, name, tokvars, pitchvars, splitvars, wrapvars>>

\* Song::new returns the song after the last line.
ReturnSong ==
    /\ pc = "parsing"
    /\ lines = <<>>
    /\ pc' = "done"
    /\ UNCHANGED <<tokvars, pitchvars, songvars, splitvars, wrapvars>>

\* Song::get_name on the same source.
GetName ==
    /\ pc \in {"parsing", "done", "panicked"}
    /\ name = None
    /\ name' = Some(get_name(source))
    /\ UNCHANGED <<pc, source, transpose_to, song, lines, chorus, comment,
                   transposition, marks, tokvars, pitchvars, splitvars, wrapvars>>

NextSong == ParseLine \/ ReturnSong \/ GetName

(***************************************************************************)
(* Chord alignment: an optional first line that starts a chorus or sets a  *)
(* capo, then one line of chords, lyrics, inline comments and              *)
(* comment-block bounds.                                                   *)
(***************************************************************************)
AlignSegments ==
    {<<"[", "C", "]">>, <<"[", "A", "m", "]">>, <<"a", "b">>,
     <<"{", "c", ":", "x", "}">>, <<"{", "s", "o", "h", "}">>,
     <<"{", "e", "o", "h", "}">>}

AlignPreludes ==
    {<<>>,
     <<"{", "s", "o", "c", "}", NL>>,
     <<"{">> \o CapoName \o <<":", "1", "}", NL>>}

AlignSources ==
    {p \o l : p \in AlignPreludes, l \in LinesOf(AlignSegments, MaxSegs)}

InitAlign == InitSong(AlignSources, {None})

SpecAlign == InitAlign /\ [][NextSong]_vars

\* Whether the characters of part stand in text from column col (0-based).
StandsAt(part, text, col) ==
    /\ col + Len(part) <= Len(text)
    /\ SubSeq(text, col + 1, col + Len(part)) = part

NameSegments ==
    {<<"{", "t", ":", "F", "}">>, <<"{", "s", "t", ":", "B", "}">>, <<"x">>}

NameSources ==
    {JoinLines(ls, sep) : ls \in SeqUpTo(LinesOf(NameSegments, MaxSegs), MaxLines),
                          sep \in {<<NL>>, <<CR, NL>>}}

InitName == InitSong(NameSources, {None})

SpecName == InitName /\ [][NextSong]_vars

\* Whether some line of the source holds a title directive.
HasTitleDirective(text) ==
    LET ls == StrLines(NormalizeNewlines(text)) IN
    \E k \in 1..Len(ls) :
        LET secs == regex_split_keep("tags", ls[k]) IN
        \E n \in 1..Len(secs) :
            /\ TagCaptures(secs[n]) # None
            /\ TagCaptures(secs[n])[1].name \in TitleNames

(***************************************************************************)
(* C10: get_name agrees with the title and subtitle of the Song built from *)
(* the same source: for a source with a title directive it is Song.title   *)
(* when Song.subtitle is empty and "<Song.title> - <Song.subtitle>"        *)
(* otherwise, also when the two directives share a line or follow text;    *)
(* for a source with no title directive its title is "Untitled".           *)
(***************************************************************************)
C10_NameMatchesSong ==
    (pc = "done" /\ name # None) =>
        /\ name[1] # None
        /\ IF HasTitleDirective(source)
           THEN name[1][1] = FormatName(song.title, song.subtitle)
           ELSE SubSeq(name[1][1], 1, Len(Untitled)) = Untitled

(***************************************************************************)
(* SongLine::split_at on its own: a line of up to MaxSpans spans a run,    *)
(* and an index up to one past the widest line.                            *)
(***************************************************************************)
SplitSpans ==
    {Span(<<"a">>, "plain"), Span(<<"b", "c">>, "plain"),
     Span(<<"a">>, "comment"), Span(<<"b", "c">>, "comment"),
     Span(<<>>, "plain")}

SplitRuns == {None} \cup {Some(spans) : spans \in SeqUpTo(SplitSpans, MaxSpans)}

InitSplit ==
    /\ pc = "split_call"
    /\ sl_line \in {SongLine(c, t) : c \in SplitRuns, t \in SplitRuns}
    /\ sl_index \in 0..(2 * MaxSpans + 1)
    /\ sl_result = None
    /\ TokIdle /\ PitchIdle /\ SongIdle /\ WrapIdle

SplitAt ==
    /\ pc = "split_call"
    /\ sl_result' = Some(split_at(sl_line, sl_index))
    /\ pc' = "split_done"
    /\ UNCHANGED <<sl_line, sl_index, tokvars, pitchvars, songvars, wrapvars>>

NextSplit == SplitAt

SpecSplit == InitSplit /\ [][NextSplit]_vars

\* The characters of an optional run, each with its style.
RECURSIVE StyledChars(_)
StyledChars(spans) ==
    IF spans = <<>> THEN <<>>
    ELSE [k \in 1..Len(Head(spans).content) |->
             <<Head(spans).content[k], Head(spans).style>>]
         \o StyledChars(Tail(spans))

RunChars(run) == IF run = None THEN <<>> ELSE StyledChars(run[1])

\* The chord runs, or the text runs, of the pieces, one after the other.
RECURSIVE PiecesChars(_, _)
PiecesChars(pieces, field) ==
    IF pieces = <<>> THEN <<>>
    ELSE RunChars(IF field = "chords" THEN Head(pieces).chords
                  ELSE Head(pieces).text)
         \o PiecesChars(Tail(pieces), field)

(***************************************************************************)
(* C8: for 0 <= index < width(), split_at(index) loses and moves nothing:  *)
(* the chord runs of the pieces, in order, are the chord run of the line,  *)
(* the text runs of the pieces are its text run, character for character   *)
(* and style for style; the first piece has width index; also when one run *)
(* is shorter than the index and the other longer; a text-only line gives  *)
(* text-only pieces and a chord-only line chord-only pieces.               *)
(***************************************************************************)
C8_SplitKeepsRuns ==
    (pc = "split_done" /\ sl_index < Width(sl_line)) =>
        LET pieces == sl_result[1].pieces IN
        /\ sl_result[1].ok
        /\ PiecesChars(pieces, "chords") = RunChars(sl_line.chords)
        /\ PiecesChars(pieces, "text") = RunChars(sl_line.text)
        /\ Width(pieces[1]) = sl_index
        /\ \A k \in 1..Len(pieces) :
              /\ sl_line.chords = None => pieces[k].chords = None
              /\ sl_line.text = None => pieces[k].text = None

(***************************************************************************)
(* C9: split_at returns the usage error, and no pieces, exactly when the   *)
(* index is at or past the line's width() or the line has neither run; in  *)
(* every other case it returns a successful result.                        *)
(***************************************************************************)
C9_SplitErrorCases ==
    pc = "split_done" =>
        LET bad == \/ sl_index >= Width(sl_line)
                   \/ (sl_line.chords = None /\ sl_line.text = None)
        IN  /\ bad => (~sl_result[1].ok /\ sl_result[1].pieces = <<>>)
            /\ ~bad => (sl_result[1].ok /\ sl_result[1].pieces # <<>>)

\* A line with content split at exactly its width, and refused.
C9_Witness ==
    /\ pc = "split_done"
    /\ sl_line.chords # None
    /\ sl_line.text # None
    /\ Width(sl_line) > 0
    /\ sl_index = Width(sl_line)
    /\ ~sl_result[1].ok

(***************************************************************************)
(* wrap_lines on its own: up to MaxWrapLines lines as Song::new makes them *)
(* (a blank line, a lyric line, a line with chords) in a small viewport,   *)
(* and the 30 lines in the viewport of height 10 of the spec's scenario.   *)
(***************************************************************************)
BlankLine == LineFromText(<<>>)
LyricLine == LineFromText(<<Span(<<"a", "b">>, "plain")>>)
ChordLine == LineFrom(<<Span(<<"C", " ">>, "chord")>>,
                      <<Span(<<"a", "b", "c", "d">>, "plain")>>)

ScenarioText == [k \in 1..30 |-> LyricLine]
ScenarioContainer == [width |-> 20, height |-> 10]

InitWrap ==
    /\ pc = "wrap_call"
    /\ \/ /\ wr_text \in SeqUpTo({BlankLine, LyricLine, ChordLine}, MaxWrapLines)
          /\ wr_container \in [width : 0..MaxViewWidth, height : 0..MaxViewHeight]
       \/ /\ wr_text = ScenarioText
          /\ wr_container = ScenarioContainer
    /\ wr_checks \in BOOLEAN
    /\ wr_result = None
    /\ TokIdle /\ PitchIdle /\ SongIdle /\ SplitIdle

WrapLines ==
    /\ pc = "wrap_call"
    /\ \E pick \in FinalPicks :
          wr_result' = Some(wrap_lines(wr_text, wr_container, wr_checks, pick))
    /\ pc' = "wrap_done"
    /\ UNCHANGED <<wr_text, wr_container, wr_checks, tokvars, pitchvars,
                   songvars, splitvars>>

NextWrap == WrapLines

SpecWrap == InitWrap /\ [][NextWrap]_vars

\* wrap_lines has returned a layout for a viewport of at least 2 by 2.
Wrapped ==
    /\ pc = "wrap_done"
    /\ wr_result[1].ok
    /\ wr_container.height >= 2
    /\ wr_container.width >= 2

HeightBudget == wr_container.height - 2
WidthBudget == wr_container.width - 2

NoWideLine == \A k \in 1..Len(wr_text) : Width(wr_text[k]) <= WidthBudget

(***************************************************************************)
(* C4: each column wrap_lines produces has a total height, the sum of      *)
(* height() of its lines, of at most the viewport height minus 2.          *)
(***************************************************************************)
C4_ColumnHeights ==
    Wrapped =>
        \A k \in 1..Len(wr_result[1].columns) :
            ColumnHeight(wr_result[1].columns[k]) <= HeightBudget

(***************************************************************************)
(* C5: the columns partition the line sequence: read in order, each from   *)
(* top to bottom, they give the lines (the pieces, for a line split by     *)
(* width) in their original order, none missing and none repeated.         *)
(***************************************************************************)
C5_ColumnsPartition ==
    Wrapped =>
        LET out == Concat(wr_result[1].columns) IN
        /\ NoWideLine => out = wr_text
        /\ PiecesChars(out, "chords") = PiecesChars(wr_text, "chords")
        /\ PiecesChars(out, "text") = PiecesChars(wr_text, "text")

\* The packing the claim describes: a line that would take the column past
\* the budget closes it and opens the next column, and counts there.
RECURSIVE GreedyColumns(_, _, _, _, _)
GreedyColumns(text, k, columns, column, budget) ==
    IF k > Len(text)
    THEN IF column = <<>> THEN columns ELSE Append(columns, column)
    ELSE IF column # <<>> /\ ColumnHeight(column) + Height(text[k]) > budget
    THEN GreedyColumns(text, k + 1, Append(columns, column), <<text[k]>>, budget)
    ELSE GreedyColumns(text, k + 1, columns, Append(column, text[k]), budget)

NonEmptyColumns(columns) == SelectSeq(columns, LAMBDA c : c # <<>>)

(***************************************************************************)
(* C6: packing is greedy: a line that would exceed the height budget       *)
(* closes the column and is the first line of the next one, where its      *)
(* height counts; 30 lines of height 1 in a viewport of height 10 give 4   *)
(* columns of heights 8, 8, 8, 6.                                          *)
(***************************************************************************)
C6_GreedyPacking ==
    (Wrapped /\ NoWideLine) =>
        LET columns == NonEmptyColumns(wr_result[1].columns) IN
        /\ columns = GreedyColumns(wr_text, 1, <<>>, <<>>, HeightBudget)
        /\ (wr_text = ScenarioText /\ wr_container = ScenarioContainer) =>
              [k \in 1..Len(columns) |-> ColumnHeight(columns[k])]
                  = <<8, 8, 8, 6>>

(***************************************************************************)
(* C7: every line in every column of the layout has a width() of at most   *)
(* the viewport width minus 2: a wider line is there as its pieces.        *)
(***************************************************************************)
C7_LineWidths ==
    Wrapped =>
        \A k \in 1..Len(wr_result[1].columns) :
            \A n \in 1..Len(wr_result[1].columns[k]) :
                Width(wr_result[1].columns[k][n]) <= WidthBudget

(***************************************************************************)
(* Pieces of markup the sources of the builder are made of.                *)
(***************************************************************************)
Braced(body) == <<"{">> \o body \o <<"}">>
SocTag == Braced(<<"s", "o", "c">>)
EocTag == Braced(<<"e", "o", "c">>)
SohTag == Braced(SohName)
EohTag == Braced(EohName)
SubtitleTag == Braced(<<"s", "t", ":", "B">>)
ChordC == <<"[", "C", "]">>
Lyric == <<"a", "b">>

\* The sources made of a prelude, one line of at most MaxSegs of the
\* segments, and a line after it.
SourcesOf(preludes, segments, followers) ==
    {p \o l \o f : p \in preludes, l \in LinesOf(segments, MaxSegs),
                   f \in followers}

(***************************************************************************)
(* The chorus: a line in or out of a chorus, then a line of chorus bounds, *)
(* a subtitle, chords and lyrics, then a line of lyrics and a chord.       *)
(***************************************************************************)
ChorusSegments == {SocTag, EocTag, SubtitleTag, ChordC, Lyric}
ChorusPreludes == {<<>>, SocTag \o <<NL>>}
ChorusFollowers == {<<>>, <<NL>> \o Lyric \o ChordC}
ChorusSources == SourcesOf(ChorusPreludes, ChorusSegments, ChorusFollowers)

InitChorus == InitSong(ChorusSources, {None})

SpecChorus == InitChorus /\ [][NextSong]_vars

\* A step of Song::new that appends a line, and the line.
Appended == pc = "parsing" /\ Len(song'.text) = Len(song.text) + 1
NewLine == song'.text[Len(song'.text)]

\* The line a subtitle directive appends: one title-styled run of text.
IsSubtitleLine(line) ==
    /\ line.chords = None
    /\ line.text # None
    /\ Len(line.text[1]) = 1
    /\ line.text[1][1].style = "title"

RunEmpty(run) == run = None \/ run[1] = <<>>
Marked(run) == ~RunEmpty(run) /\ run[1][1] = ChorusMarker

\* The run is the marker and then a run that is not empty and not marked.
MarkedOnce(run) ==
    /\ Marked(run)
    /\ Len(run[1]) >= 2
    /\ run[1][2] # ChorusMarker

\* Whether a block opened by soc is open after the sections of a line, read
\* left to right: soc opens it and ends the line, eoc closes it, a subtitle
\* ends the line.
RECURSIVE BlockAfter(_, _, _)
BlockAfter(open, secs, k) ==
    IF k > Len(secs) THEN open
    ELSE IF secs[k] = SocTag THEN TRUE
    ELSE IF secs[k] = SubtitleTag THEN open
    ELSE IF secs[k] = EocTag THEN BlockAfter(FALSE, secs, k + 1)
    ELSE BlockAfter(open, secs, k + 1)

InBlock == BlockAfter(chorus, regex_split_keep("tags", Head(lines)), 1)

\* What the claim says of a line appended in or out of a chorus block.
MarkerRule(line, in_block) ==
    IF in_block
    THEN /\ ~RunEmpty(line.text) => MarkedOnce(line.text)
         /\ ~RunEmpty(line.chords) => MarkedOnce(line.chords)
    ELSE ~Marked(line.text) /\ ~Marked(line.chords)

(***************************************************************************)
(* C11, as stated: every line appended after a start-of-chorus directive   *)
(* and before the next end-of-chorus directive has the comment-styled "| " *)
(* before its text run if that run is not empty and before its chord run   *)
(* if that run is not empty; no line appended outside such a block, and    *)
(* not the line with the end-of-chorus directive, has the marker.          *)
(***************************************************************************)
C11_EveryLineInChorus ==
    [][Appended => MarkerRule(NewLine, InBlock)]_vars

(***************************************************************************)
(* C11, amended: the same of every line appended at the end of a physical  *)
(* line, which is every appended line but the title-styled line of a       *)
(* subtitle directive; the builder's chorus flag after the line is whether *)
(* the block is open.                                                      *)
(***************************************************************************)
C11_ChorusMarker ==
    [][Appended =>
         /\ chorus' = InBlock
         /\ ~IsSubtitleLine(NewLine) => MarkerRule(NewLine, InBlock)]_vars

\* A finished song in a chorus with a line marked on both runs.
C11_Witness ==
    /\ pc = "done"
    /\ chorus
    /\ \E k \in 1..Len(song.text) :
          MarkedOnce(song.text[k].text) /\ MarkedOnce(song.text[k].chords)

(***************************************************************************)
(* Key and capo directives: up to MaxLines lines, each a key directive or  *)
(* a capo directive, with no target key and with one of C, D, G, B; and    *)
(* the scenario of a title, a key and a line of two chords over two words. *)
(***************************************************************************)
\* Declared keys: the text of the argument and the semitone it names.
DeclaredKeys ==
    {[arg |-> <<" ", "C">>, semitone |-> 0],
     [arg |-> <<"F", "#">>, semitone |-> 6],
     [arg |-> <<"B", "b", " ">>, semitone |-> 10],
     [arg |-> <<"A">>, semitone |-> 9]}

\* Capo amounts: the text of the argument and the integer it names.
CapoAmounts ==
    {[arg |-> <<"1">>, amount |-> 1],
     [arg |-> <<" ", "2">>, amount |-> 2],
     [arg |-> <<"-", "1">>, amount |-> -1]}

KeyLine(arg) == Braced(KeyName \o <<":">> \o arg)
CapoLine(arg) == Braced(CapoName \o <<":">> \o arg)

KeyLines ==
    {KeyLine(d.arg) : d \in DeclaredKeys} \cup {CapoLine(c.arg) : c \in CapoAmounts}

KeyScenario ==
    <<"{", "t", "i", "t", "l", "e", ":", " ", "A", "m", "a", "z", "i",
    "n", "g", "}", NL, "{", "k", "e", "y", ":", " ", "C", "}", NL, "[",
    "C", "]", "H", "e", "l", "l", "o", " ", "[", "G", "]", "w", "o", "r",
    "l", "d">>

KeySources ==
    {KeyScenario} \cup {JoinLines(ls, <<NL>>) : ls \in SeqUpTo(KeyLines, MaxLines)}

KeyTargets == {None} \cup {Some(p) : p \in {0, 2, 7, 11}}

InitKey == InitSong(KeySources, KeyTargets)

SpecKey == InitKey /\ [][NextSong]_vars

\* A step of Song::new over the line.
LineStep(line) ==
    pc = "parsing" /\ lines # <<>> /\ Head(lines) = line /\ lines' # lines

KeyRule ==
    \A d \in DeclaredKeys :
        LineStep(KeyLine(d.arg)) =>
            /\ pc' = "parsing"
            /\ transposition' =
                   IF transpose_to = None THEN transposition
                   ELSE transposition + (transpose_to[1] - d.semitone)

CapoRule ==
    \A c \in CapoAmounts :
        LineStep(CapoLine(c.arg)) =>
            /\ pc' = "parsing"
            /\ transposition' = transposition - c.amount

\* The scenario with the target D.
KeyScenarioResult ==
    (pc = "done" /\ source = KeyScenario /\ transpose_to = Some(2)) =>
        /\ song.title = <<"A", "m", "a", "z", "i", "n", "g">>
        /\ transposition = 2
        /\ Len(song.text) = 1
        /\ song.text[1].chords # None
        /\ song.text[1].text # None
        /\ LET lyric_run == SpansText(song.text[1].text[1])
               chord_run == SpansText(song.text[1].chords[1])
           IN  /\ lyric_run =
                      <<"H", "e", "l", "l", "o", " ", "w", "o", "r", "l", "d">>
               /\ lyric_run[7] = "w"
               /\ StandsAt(<<"D", " ">>, chord_run, 0)
               /\ StandsAt(<<"A", " ">>, chord_run, 6)
               /\ \A n \in 1..Len(chord_run) :
                      n \notin {1, 7} => chord_run[n] = " "

(***************************************************************************)
(* C12: a key directive adds the target's semitone minus the declared      *)
(* key's semitone to the transposition when a target key is supplied and   *)
(* changes nothing when none is; a capo directive subtracts its integer    *)
(* argument.  For "{title: Amazing}", "{key: C}", "[C]Hello [G]world" with *)
(* the target D the title is "Amazing", the transposition is 2, and the    *)
(* one line has the lyric run "Hello world", the chord D at column 0 and   *)
(* the chord A at the column of the w of "world".                          *)
(***************************************************************************)
C12_KeyAndCapo ==
    /\ []KeyScenarioResult
    /\ [][KeyRule /\ CapoRule]_vars

\* The scenario built, and a song of a key and a capo with a target key.
C12_Witness ==
    /\ pc = "done"
    /\ \/ source = KeyScenario /\ transpose_to = Some(2) /\ transposition = 2
       \/ /\ source = KeyLine(<<"A">>) \o <<NL>> \o CapoLine(<<"1">>)
          /\ transpose_to = Some(0)
          /\ transposition = -10

(***************************************************************************)
(* Malformed directives: a line of directives whose argument is missing or *)
(* is no integer or no pitch, of lyrics and of a chord, then a line of     *)
(* lyrics; with and without a target key.                                  *)
(***************************************************************************)
MalformedSegments ==
    {CapoLine(<<"x">>), KeyLine(<<"H">>), Braced(CapoName), Braced(KeyName),
     Braced(<<"t">>), Braced(<<"s", "t">>), Braced(CommentName), Lyric,
     ChordC}

MalformedFollowers == {<<>>, <<NL>> \o Lyric}

MalformedSources == SourcesOf({<<>>}, MalformedSegments, MalformedFollowers)

InitMalformed == InitSong(MalformedSources, {None, Some(2)})

SpecMalformed == InitMalformed /\ [][NextSong]_vars

\* The source ends with the line of lyrics, and so does the song.
LastLineParsed ==
    (/\ Len(source) > Len(Lyric)
     /\ SubSeq(source, Len(source) - Len(Lyric), Len(source)) = <<NL>> \o Lyric)
    => /\ song.text # <<>>
       /\ song.text[Len(song.text)] = LineFromText(<<Span(Lyric, "plain")>>)

(***************************************************************************)
(* C13: building a Song completes and returns a Song for every source: a   *)
(* capo directive whose argument is no integer, a key directive whose      *)
(* argument is no pitch, and a title, subtitle, key, capo or c directive   *)
(* with no argument leave the transposition unchanged and abort nothing,   *)
(* and the lines after them are parsed and appended.                       *)
(***************************************************************************)
C13_MalformedRecovered ==
    /\ pc # "panicked"
    /\ transposition = 0
    /\ pc = "done" => LastLineParsed

(***************************************************************************)
(* Chord tokens: one chord token of up to MaxSegs characters (roots,       *)
(* accidentals, a slash, a quality), after no capo, a capo of 1 or a capo  *)
(* of -2.                                                                  *)
(***************************************************************************)
ChordTagChars == {"C", "G", "b", "#", "/", "m"}
ChordTags == SeqUpTo(ChordTagChars, MaxSegs)
ChordTagPreludes ==
    {<<>>, CapoLine(<<"1">>) \o <<NL>>, CapoLine(<<"-", "2">>) \o <<NL>>}

ChordToken(tag) == <<"[">> \o tag \o <<"]">>

ChordTagSources ==
    {p \o ChordToken(tag) : p \in ChordTagPreludes, tag \in ChordTags}

InitChordTag == InitSong(ChordTagSources, {None})

SpecChordTag == InitChordTag /\ [][NextSong]_vars

\* The tag with its leading root, if it has one, moved by offset semitones
\* and all that follows the root as it is.
RootOnly(tag, offset) ==
    IF tag = <<>> \/ tag[1] \notin RootLetters THEN tag
    ELSE LET n == IF Len(tag) > 1 /\ tag[2] \in {"b", "#"} THEN 2 ELSE 1
         IN  PitchName((PitchFromStr(SubSeq(tag, 1, n))[1] + offset) % 12)
             \o SubSeq(tag, n + 1, Len(tag))

(***************************************************************************)
(* C14: of a chord token only the root (a leading letter A-G with an       *)
(* optional # or b) is replaced by the name of the transposed pitch; every *)
(* character after the root is put into the chord run as it is, also a     *)
(* capital letter A-G of a slash bass note or a quality; a token with no   *)
(* leading root is put as it is.                                           *)
(***************************************************************************)
C14_OnlyRootReplaced ==
    pc = "done" =>
        \A p \in ChordTagPreludes, tag \in ChordTags :
            source = p \o ChordToken(tag) =>
                /\ song.text # <<>>
                /\ song.text[Len(song.text)].chords =
                       Some(<<Span(RootOnly(tag, transposition) \o <<" ">>,
                                   "chord")>>)

(***************************************************************************)
(* Comment blocks: a line in or out of a comment block or a chorus, then a *)
(* line of block bounds, an unknown directive, chords and lyrics.          *)
(***************************************************************************)
UnknownTag == Braced(<<"x">>)
BlockSegments == {SohTag, EohTag, EocTag, UnknownTag, ChordC, Lyric}
BlockPreludes == {<<>>, SohTag \o <<NL>>, SocTag \o <<NL>>}
BlockSources == SourcesOf(BlockPreludes, BlockSegments, {<<>>})

InitBlock == InitSong(BlockSources, {None})

SpecBlock == InitBlock /\ [][NextSong]_vars

\* A step of Song::new over a line whose last section is the directive.
EndsWith(tag) ==
    /\ pc = "parsing" /\ lines # <<>> /\ lines' # lines
    /\ Len(Head(lines)) >= Len(tag)
    /\ SubSeq(Head(lines), Len(Head(lines)) - Len(tag) + 1,
              Len(Head(lines))) = tag

(***************************************************************************)
(* C15: the builder is in exactly one of Normal, InChorus, InCommentBlock  *)
(* after any sequence of soc, eoc, soh and eoh directives: never in chorus *)
(* and in a comment block at once, and in Normal after an eoh or an eoc    *)
(* directive.                                                              *)
(***************************************************************************)
C15_OneBuilderState ==
    /\ [](~(chorus /\ comment))
    /\ [][(EndsWith(EohTag) \/ EndsWith(EocTag))
              => (~chorus' /\ ~comment')]_vars

\* The spans of a run of an appended line, without the chorus marker.
Unmarked(run) ==
    IF run = None THEN <<>>
    ELSE IF chorus' /\ Marked(run) THEN Tail(run[1])
    ELSE run[1]

\* The runs of a line after its sections from the k-th on, as the claim
\* has them: in a comment block a segment of text is one comment-styled
\* span of the lyric side, out of it the segment goes to the aligner.
RECURSIVE BlockRuns(_, _, _, _, _, _)
BlockRuns(secs, k, in_block, chords, text, offset) ==
    IF k > Len(secs) THEN [chords |-> chords, text |-> text]
    ELSE IF secs[k] = SohTag
    THEN BlockRuns(secs, k + 1, TRUE, chords, text, offset)
    ELSE IF secs[k] = EohTag
    THEN BlockRuns(secs, k + 1, FALSE, chords, text, offset)
    ELSE IF secs[k] \in {EocTag, UnknownTag}
    THEN BlockRuns(secs, k + 1, in_block, chords, text, offset)
    ELSE IF in_block
    THEN BlockRuns(secs, k + 1, in_block, chords,
                   Append(text, Span(secs[k], "comment")), offset)
    ELSE BlockRuns(secs, k + 1, in_block,
                   parse_chords(secs[k], chords, text, offset, <<>>).chords,
                   parse_chords(secs[k], chords, text, offset, <<>>).spans,
                   offset)

TitleTag == Braced(<<"t", ":", "F">>)
CommentTag == Braced(CommentName \o <<":", "x">>)
GenericTag == Braced(<<"t", "a", "g">>)

\* The directives at which, as the claim has it, the line is left.
LeavingTags == {TitleTag, KeyLine(<<"C">>), SocTag}

\* The directives after which the rest of the line is processed.
PassingTags ==
    {CapoLine(<<"1">>), CommentTag, EocTag, SohTag, EohTag, GenericTag,
     UnknownTag}

AppendSegments ==
    LeavingTags \cup {SubtitleTag} \cup PassingTags \cup {ChordC, Lyric}

AppendSources == SourcesOf({<<>>}, AppendSegments, {<<>>, <<NL>> \o Lyric})

InitAppend == InitSong(AppendSources, {None})

SpecAppend == InitAppend /\ [][NextSong]_vars

\* What becomes of a line, its sections read from the k-th on: "none" at a
\* title, key or start-of-chorus directive, "subtitle" at a subtitle
\* directive, "line" at the end of the line.
RECURSIVE LineFate(_, _)
LineFate(secs, k) ==
    IF k > Len(secs) THEN "line"
    ELSE IF secs[k] \in LeavingTags THEN "none"
    ELSE IF secs[k] = SubtitleTag THEN "subtitle"
    ELSE LineFate(secs, k + 1)

\* How many of the elements of a sequence are x.
CountOf(x, seq) == Cardinality({n \in 1..Len(seq) : seq[n] = x})

\* How many a the sections that are no directive hold, from the k-th on.
RECURSIVE LyricCount(_, _)
LyricCount(secs, k) ==
    IF k > Len(secs) THEN 0
    ELSE (IF secs[k][1] = "{" THEN 0 ELSE CountOf("a", secs[k]))
         + LyricCount(secs, k + 1)

\* A step of Song::new over a line, whatever the line.
AnyLineStep == pc = "parsing" /\ lines # <<>> /\ lines' # lines

(***************************************************************************)
(* C16: for every physical line exactly one SongLine is appended, but a    *)
(* line on which a title, key or start-of-chorus directive is reached      *)
(* appends none and a line on which a subtitle directive is reached        *)
(* appends only the title-styled subtitle line; every other directive      *)
(* (capo, c, eoc, soh, eoh, the generic tag, an unknown name) is passed:   *)
(* the rest of its line is processed and the line is appended.             *)
(***************************************************************************)
C16_OneLinePerLine ==
    [][AnyLineStep =>
         LET secs == regex_split_keep("tags", Head(lines))
             fate == LineFate(secs, 1)
         IN  /\ pc' = "parsing"
             /\ fate = "none" => song'.text = song.text
             /\ fate = "subtitle" =>
                    /\ Appended
                    /\ SubSeq(song'.text, 1, Len(song.text)) = song.text
                    /\ NewLine = LineFromText(<<Span(<<"B">>, "title")>>)
             /\ fate = "line" =>
                    /\ Appended
                    /\ SubSeq(song'.text, 1, Len(song.text)) = song.text
                    /\ ~IsSubtitleLine(NewLine)
                    /\ CountOf("a", SpansText(Unmarked(NewLine.text)))
                           = LyricCount(secs, 1)]_vars

(***************************************************************************)
(* C17: every SongLine the builder appends has a run only when that run is *)
(* not empty: a line whose chord run is empty has no chord run, a line     *)
(* whose lyric run is empty has no text run (a line of chords only has     *)
(* height 1), and a blank line has neither run, width 0 and height 0.      *)
(***************************************************************************)
C17_RunsOnlyWhenNotEmpty ==
    \A k \in 1..Len(song.text) :
        LET line == song.text[k] IN
        /\ line.chords # None => line.chords[1] # <<>>
        /\ line.text # None => line.text[1] # <<>>
        /\ Height(line) = (IF RunEmpty(line.chords) THEN 0 ELSE 1)
                          + (IF RunEmpty(line.text) THEN 0 ELSE 1)
        /\ (RunEmpty(line.chords) /\ RunEmpty(line.text)) => Width(line) = 0

(***************************************************************************)
(* One offset for a song: up to MaxLines lines, each a key directive, a    *)
(* capo directive, the chord C over lyrics, or the chord C before and      *)
(* after a capo directive; parsed with a target key.                       *)
(***************************************************************************)
UniformLines ==
    {KeyLine(<<"C">>), CapoLine(<<"1">>), ChordC \o Lyric,
     ChordC \o CapoLine(<<"1">>) \o ChordC}

UniformSources ==
    {JoinLines(ls, <<NL>>) : ls \in SeqUpTo(UniformLines, MaxLines)}

InitUniform == InitSong(UniformSources, {Some(0), Some(2)})

SpecUniform == InitUniform /\ [][NextSong]_vars

(***************************************************************************)
(* C18: in a song parsed with a target key every chord root is shifted by  *)
(* the same offset: a chord before the key directive or before a capo      *)
(* directive, on an earlier line or earlier on the line, is transposed as  *)
(* a chord after it is.  Every chord of these sources is C, so all the     *)
(* chords of the song are to be the same.                                  *)
(***************************************************************************)
C18_OneOffset ==
    pc = "done" =>
        \A k1, k2 \in 1..Len(marks) :
            \A n1 \in 1..Len(marks[k1]), n2 \in 1..Len(marks[k2]) :
                marks[k1][n1].chord = marks[k2][n2].chord


(***************************************************************************)
(* Padding: one line of chords and lyrics, with lyrics that end in a       *)
(* letter, a comma or a tab, and directives between them, so that          *)
(* parse_chords is called more than once on the line.                      *)
(***************************************************************************)
ChordAm == <<"[", "A", "m", "]">>

PadSegments ==
    {ChordC, ChordAm, <<"a">>, <<"a", ",">>, <<"a", "\t">>, UnknownTag}

PadFollowers == {<<>>, ChordC, ChordAm}

PadSources == SourcesOf({<<>>}, PadSegments, PadFollowers)

InitPad == InitSong(PadSources, {None})

SpecPad == InitPad /\ [][NextSong]_vars

\* The characters that are followed by spaces: whitespace and , . : ;
SpaceBefore == {" ", "\t", ",", ".", ":", ";"}

\* The filler after the lyric run text of width col: a hyphen, or a space
\* when the character before is whitespace or one of , . : ; (after no
\* character at all, either one).
Fillers(text, col) ==
    IF col = 0 THEN {" ", "-"}
    ELSE IF text[col] \in SpaceBefore THEN {" "} ELSE {"-"}

\* The text of the run of SongLine line.
RunText(run) == IF run = None THEN <<>> ELSE SpansText(run[1])

\* Whether text has only c from column from to column to (0-based, to not
\* included).
OnlyBetween(c, text, from, to) ==
    /\ to <= Len(text)
    /\ \A i \in (from + 1)..to : text[i] = c

(***************************************************************************)
(* C20: when a chord token is met while the chord run is ahead of the      *)
(* lyric run by d > 0 characters, the lyric run is padded with exactly d   *)
(* copies of one filler: a space when the last character of the lyric run  *)
(* of the line so far (runs queued by earlier calls included) is           *)
(* whitespace or one of , . : ; and a hyphen otherwise; when the lyric run *)
(* is ahead by d > 0 the chord run is padded with exactly d spaces; when   *)
(* they are level nothing is padded.                                       *)
(***************************************************************************)
C20_PaddingFiller ==
    \A k \in 1..Len(song.text) :
        \A n \in 1..Len(marks[k]) :
            LET m == marks[k][n]
                lyrics == RunText(song.text[k].text)
                chords == RunText(song.text[k].chords)
            IN  /\ m.cfrom > m.lfrom =>
                      /\ m.ccol = m.cfrom
                      /\ m.lcol = m.cfrom
                      /\ \E c \in Fillers(lyrics, m.lfrom) :
                            OnlyBetween(c, lyrics, m.lfrom, m.lcol)
                /\ m.lfrom > m.cfrom =>
                      /\ m.lcol = m.lfrom
                      /\ m.ccol = m.lfrom
                      /\ OnlyBetween(" ", chords, m.cfrom, m.ccol)
                /\ m.lfrom = m.cfrom =>
                      /\ m.lcol = m.lfrom
                      /\ m.ccol = m.cfrom

(***************************************************************************)
(* Empty chord brackets: one line of empty brackets, chords, lyrics and    *)
(* an unknown directive; no chorus, so that no marker moves the runs.      *)
(***************************************************************************)
ChordEmpty == <<"[", "]">>

EmptySegments == {ChordEmpty, ChordC, <<"a">>, UnknownTag}

EmptySources == SourcesOf({<<>>}, EmptySegments, {<<>>, ChordC, ChordEmpty})

InitEmpty == InitSong(EmptySources, {None})

SpecEmpty == InitEmpty /\ [][NextSong]_vars

\* The width of the chord run of line k once its n-th chord token is
\* processed: the width at which the next token finds it, or the width of
\* the finished run.
ChordRunAfter(k, n) ==
    IF n < Len(marks[k]) THEN marks[k][n + 1].cfrom
    ELSE Len(SpansText(song.text[k].chords[1]))

(***************************************************************************)
(* C21: an empty chord bracket [] adds to the chord run and to the lyric   *)
(* run only the alignment padding computed for it: once it is processed    *)
(* the chord run has grown by exactly the padding, and the chord run and   *)
(* the lyric run have equal width.                                         *)
(***************************************************************************)
C21_EmptyBracket ==
    \A k \in 1..Len(song.text) :
        \A n \in 1..Len(marks[k]) :
            LET m == marks[k][n] IN
            m.chord = <<>> =>
                /\ ChordRunAfter(k, n) = m.cfrom + Max({m.lfrom - m.cfrom, 0})
                /\ ChordRunAfter(k, n) = m.lcol

(***************************************************************************)
(* C22: wrap_lines never makes split_at return its error: every call       *)
(* passes an index below the width of a line that has content, also for a  *)
(* line whose width lies between width / columncount and the column width, *)
(* so that line.split_at(width).unwrap() never panics.                     *)
(***************************************************************************)
C22_SplitIndexInRange ==
    pc = "wrap_done" => wr_result[1].why # "split_at"

(***************************************************************************)
(* C23: wrap_lines returns a layout for every viewport and every line      *)
(* sequence without arithmetic failure: height - 2 and width - 2 do not    *)
(* underflow, the column count is not divided by a height budget of 0, and *)
(* every column has a line, so that its maximum width is defined.          *)
(***************************************************************************)
C23_NoArithmeticFailure ==
    pc = "wrap_done" =>
        /\ wr_container.height >= 2
        /\ wr_container.width >= 2
        /\ wr_result[1].why \notin {"subtract", "divide", "max_by_key"}
=============================================================================
